---- MODULE Spec2Model ----
(***************************************************************************)
(* Model of support_bot.py: the /SOS ticket dialog of SupportBot, the      *)
(* routing of updates set up in main(), and the dispatch to Pyrus.         *)
(*                                                                         *)
(* Texts are sequences of characters, so that str.strip() is computed.     *)
(* A draft (a value of self.user_data) is a function whose DOMAIN is the   *)
(* set of keys the Python dict holds, so that a missing key is visible.    *)
(* A call to the chat transport that stands outside any try block is taken *)
(* to return; inside confirm_ticket_callback's try block it may raise.     *)
(***************************************************************************)
EXTENDS FiniteSets, Integers, Sequences, TLC

VARIABLES
    user_data,      \* SupportBot.user_data: user id -> draft
    conversations,  \* ConversationHandler state per (chat id, user id)
    groups,         \* DataManager.groups: chat id -> title
    keyboards,      \* chat id -> inline buttons that were rendered in the chat
    inflight,       \* confirm_ticket_callback coroutines suspended on a render
    out,            \* the update handled last and what was rendered for it
    requests,       \* user id -> requests posted to Pyrus for the user's draft
    user_settings,  \* DataManager.user_settings: str(user id) -> settings
    disk,           \* what groups.json and user_settings.json hold
    locales,        \* LocalizationManager.locales: language -> bundle
    resolved        \* the last call of LocalizationManager.get and its outcome

dialog_vars == <<user_data, conversations, inflight, requests>>

locale_vars == <<locales, resolved>>

vars == <<user_data, conversations, groups, keyboards, inflight, out, requests,
          user_settings, disk, locales, resolved>>

---------------------------------------------------------------------------
(* Bounds and the environment the updates are drawn from *)

MaxLen == 2

\* The count of requests per draft is kept up to this number
MaxRequests == 2

Chars == {" ", "a"}

Whitespace == {" "}

Users == {42, 43}

GroupChats == {555, 556}

PrivateChats == {7}

Chats == GroupChats \cup PrivateChats

\* The users whose updates reach the bot from a chat: one user who is in
\* both groups and has a private chat with the bot
members(c) == {42}

\* The same with a second user in the first group
all_members(c) == IF c = 555 THEN {42, 43} ELSE {42}

\* Every chat taken for a group
chat_type_always_group(c) == "group"

chat_type(c) == IF c \in GroupChats THEN "group" ELSE "private"

chat_title(c) == IF c = 555 THEN "Branch-12" ELSE IF c = 556 THEN "Branch-7" ELSE "none"

full_name(u) == IF u = 42 THEN "Ivan" ELSE "Olga"

\* message.text of an update that passes filters.TEXT: never the empty string
Texts == UNION {[1..n -> Chars] : n \in 1..MaxLen}

Responses == {"200", "500", "timeout"}

---------------------------------------------------------------------------
(* Constants of the program *)

BRANCH == 0

DESCRIPTION == 1

END == -1

\* 'Не указан', transliterated
NO_BRANCH_LABEL == <<"N", "e", " ", "u", "k", "a", "z", "a", "n">>

---------------------------------------------------------------------------
(* Pure helpers *)

RECURSIVE lstrip(_)
lstrip(s) ==
    IF s = <<>> THEN <<>>
    ELSE IF Head(s) \in Whitespace THEN lstrip(Tail(s))
    ELSE s

RECURSIVE rstrip(_)
rstrip(s) ==
    IF s = <<>> THEN <<>>
    ELSE IF s[Len(s)] \in Whitespace THEN rstrip(SubSeq(s, 1, Len(s) - 1))
    ELSE s

\* strip() that forgets the trailing side
strip_left_only(s) == lstrip(s)

\* strip() left out
strip_missing(s) == s

strip(s) == rstrip(lstrip(s))

\* d[k] = v on a Python dict
dict_set(d, k, v) == [x \in DOMAIN d \cup {k} |-> IF x = k THEN v ELSE d[x]]

\* every entry removed
dict_clear(d, k) == <<>>

\* del d[k]
dict_del(d, k) == [x \in DOMAIN d \ {k} |-> d[x]]

new_draft(u, c) ==
    [group_name |-> chat_title(c), group_id |-> c, user_name |-> full_name(u)]

digit(n) == <<"0", "1", "2", "3", "4", "5", "6", "7", "8", "9">>[n + 1]

\* str() of a non-negative int, as a sequence of digit characters
RECURSIVE str(_)
str(n) == IF n < 10 THEN <<digit(n)>> ELSE str(n \div 10) \o <<digit(n % 10)>>

\* DataManager.add_group, timestamps left out
add_group(g, c) == dict_set(g, str(c), [id |-> c, title |-> chat_title(c)])

\* DataManager.get_user_language on a settings collection
language_of(settings, u) ==
    IF str(u) \in DOMAIN settings /\ "language" \in DOMAIN settings[str(u)]
    THEN settings[str(u)]["language"]
    ELSE "RU"

get_user_language(u) == language_of(user_settings, u)

\* set_user_language that rebuilds the collection with the one user in it
set_user_language_alone(settings, u, language) ==
    dict_set(<<>>, str(u), [language |-> language])

\* DataManager.set_user_language: the collection after the call
set_user_language(settings, u, language) ==
    LET known == IF str(u) \in DOMAIN settings THEN settings
                 ELSE dict_set(settings, str(u), <<>>)
    IN  [known EXCEPT ![str(u)] = dict_set(@, "language", language)]

\* send_to_pyrus that does not look at the status code
send_to_pyrus_any_status(data, resp) ==
    IF {"user_name", "group_name", "branch", "description"} \subseteq DOMAIN data
    THEN [success |-> (resp # "timeout"),
          posted  |-> << [text   |-> <<data["user_name"], data["group_name"]>>,
                          fields |-> <<data["group_name"], data["branch"],
                                       data["description"]>>] >>]
    ELSE [success |-> FALSE, posted |-> <<>>]

\* send_to_pyrus(data) when the backend answers resp: the result and the
\* requests that went out. A missing key raises KeyError while the payload is
\* built, which the except clause turns into False before anything is sent.
send_to_pyrus(data, resp) ==
    IF {"user_name", "group_name", "branch", "description"} \subseteq DOMAIN data
    THEN [success |-> (resp = "200"),
          posted  |-> << [text   |-> <<data["user_name"], data["group_name"]>>,
                          fields |-> <<data["group_name"], data["branch"],
                                       data["description"]>>] >>]
    ELSE [success |-> FALSE, posted |-> <<>>]

---------------------------------------------------------------------------
(* Routing of an update, as main() registers the handlers *)

Kinds == {"/SOS", "/cancel", "text", "no_branch", "confirm_ticket", "cancel_ticket"}

\* The handler that gets an update of the given kind sent by u in chat c
handler_for(kind, c, u) ==
    IF kind = "/start" THEN "start"
    ELSE IF kind = "/language" THEN "language_command"
    ELSE IF kind = "/help" THEN "help_command"
    ELSE IF kind \in {"select_language", "lang_RU", "lang_UZ"} THEN "language_callback"
    ELSE IF kind \in {"confirm_ticket", "cancel_ticket"} THEN "confirm_ticket_callback"
    ELSE LET state == conversations[<<c, u>>] IN
         IF state = END
         THEN IF kind = "/SOS" THEN "sos_command" ELSE "none"
         ELSE IF state = BRANCH /\ kind = "text" THEN "receive_branch"
         ELSE IF state = BRANCH /\ kind = "no_branch" THEN "no_branch_callback"
         ELSE IF state = DESCRIPTION /\ kind = "text" THEN "receive_description"
         ELSE IF kind = "/cancel" THEN "cancel"
         ELSE "none"

\* A button can be pressed only in a chat where it was rendered
can_send(kind, c) ==
    IF kind \in {"no_branch", "confirm_ticket", "cancel_ticket",
                "select_language", "lang_RU", "lang_UZ"}
    THEN kind \in keyboards[c]
    ELSE TRUE

\* concurrent_updates switched on
can_fetch_concurrent == TRUE

\* Application.builder()...build() leaves concurrent_updates off: the next
\* update is fetched only when the handler of the previous one has returned
can_fetch == inflight = {}

routed(kind, c, u, h) ==
    can_fetch /\ can_send(kind, c) /\ handler_for(kind, c, u) = h

response(ev, u, c, arg, reply) ==
    [ev |-> ev, user |-> u, chat |-> c, arg |-> arg, reply |-> reply,
     calls |-> <<>>, posted |-> <<>>, success |-> FALSE]

---------------------------------------------------------------------------
(* LocalizationManager: bundles are JSON documents, texts are templates *)

MaxTokens == 2

\* A template is a sequence of tokens: literal text or a named field {name}
lit(t) == [kind |-> "lit", s |-> t]

field(n) == [kind |-> "field", s |-> n]

Tokens == {lit("a"), field("x"), field("y")}

Templates == UNION {[1..n -> Tokens] : n \in 0..MaxTokens}

\* JSON values: a string, an object, or anything else (a number)
json_str(t) == [type |-> "str", text |-> t, items |-> <<>>]

json_dict(items) == [type |-> "dict", text |-> <<>>, items |-> items]

json_num == [type |-> "num", text |-> <<>>, items |-> <<>>]

Leaves == {json_str(t) : t \in Templates} \cup {json_num}

\* A bundle has at most the section "ticket", which is a leaf or an object
\* with at most the key "created"
Sections == Leaves \cup {json_dict(<<>>)} \cup {json_dict([k \in {"created"} |-> v]) : v \in Leaves}

Bundles == {<<>>} \cup {[k \in {"ticket"} |-> v] : v \in Sections}

Langs == {"RU", "UZ", "FR"}

\* every caller names a section and a key in it
KeyPaths == UNION {[1..n -> {"ticket", "created"}] : n \in 1..2}

Kwargs == UNION {[names -> {"v"}] : names \in SUBSET {"x", "y"}}

RECURSIVE join(_)
\* '.'.join(keys)
join(keys) ==
    IF keys = <<>> THEN <<>>
    ELSE IF Len(keys) = 1 THEN <<lit(keys[1])>>
    ELSE <<lit(keys[1]), lit(".")>> \o join(Tail(keys))

missing_translation(keys) ==
    json_str(<<lit("[Missing translation: ")>> \o join(keys) \o <<lit("]")>>)

RECURSIVE walk(_, _)
\* for key in keys: text = text[key]
walk(text, keys) ==
    IF keys = <<>> THEN [error |-> "none", value |-> text]
    ELSE IF text.type # "dict" THEN [error |-> "TypeError", value |-> text]
    ELSE IF Head(keys) \notin DOMAIN text.items THEN [error |-> "KeyError", value |-> text]
    ELSE walk(text.items[Head(keys)], Tail(keys))

RECURSIVE format(_, _)
\* str.format(**kwargs): fields are replaced from left to right, a field
\* whose name is not among kwargs raises KeyError
format(text, kwargs) ==
    IF text = <<>> THEN [error |-> "none", text |-> <<>>]
    ELSE LET rest == format(Tail(text), kwargs)
             tok == Head(text)
         IN  IF tok.kind = "field" /\ tok.s \notin DOMAIN kwargs
             THEN [error |-> "KeyError", text |-> <<>>]
             ELSE IF rest.error # "none" THEN rest
             ELSE [error |-> "none",
                   text |-> <<IF tok.kind = "field" THEN lit(kwargs[tok.s]) ELSE tok>> \o rest.text]

returns(v) == [kind |-> "return", value |-> v]

raises(e) == [kind |-> "raise", value |-> [type |-> e, text |-> <<>>, items |-> <<>>]]

no_result == [kind |-> "none", value |-> json_num]

\* LocalizationManager.get
get(locs, lang, keys, kwargs) ==
    LET bundle == IF lang \in DOMAIN locs THEN locs[lang] ELSE locs["RU"]
        found == walk(json_dict(bundle), keys)
    IN  IF found.error # "none" THEN returns(missing_translation(keys))
        ELSE IF DOMAIN kwargs # {}
        THEN IF found.value.type # "str" THEN raises("AttributeError")
             ELSE LET done == format(found.value.text, kwargs)
                  IN  IF done.error # "none" THEN returns(missing_translation(keys))
                      ELSE returns(json_str(done.text))
        ELSE returns(found.value)


---------------------------------------------------------------------------
\* The bundles as load_locales leaves them when neither file is found
loaded_locales == [lang \in {"RU", "UZ"} |-> <<>>]

InitBot ==
    /\ user_data = <<>>
    /\ conversations = [k \in Chats \X Users |-> END]
    /\ groups = <<>>
    /\ keyboards = [c \in Chats |-> {}]
    /\ inflight = {}
    /\ out = response("none", 0, 0, <<>>, "none")
    /\ requests = [u \in Users |-> 0]
    /\ user_settings = <<>>
    /\ disk = [groups |-> <<>>, user_settings |-> <<>>]
    /\ resolved = [lang |-> "none", keys |-> <<>>, kwargs |-> <<>>, result |-> no_result]

Init == InitBot /\ locales = loaded_locales

\* The two bundles are whatever the two files hold
InitLocale == InitBot /\ locales \in [{"RU", "UZ"} -> Bundles]

sos_command(u, c) ==
    /\ routed("/SOS", c, u, "sos_command")
    /\ IF chat_type(c) \notin {"group", "supergroup"}
       THEN /\ out' = response("/SOS", u, c, <<>>, "errors.group_only")
            /\ conversations' = [conversations EXCEPT ![<<c, u>>] = END]
            /\ UNCHANGED <<user_data, groups, keyboards, inflight, requests, disk>>
       ELSE /\ groups' = add_group(groups, c)
            /\ disk' = [disk EXCEPT !.groups = groups']
            /\ requests' = [requests EXCEPT ![u] = 0]
            /\ user_data' = dict_set(user_data, u, new_draft(u, c))
            /\ keyboards' = [keyboards EXCEPT ![c] = @ \cup {"no_branch"}]
            /\ out' = response("/SOS", u, c, <<>>, "ticket.enter_branch_name")
            /\ conversations' = [conversations EXCEPT ![<<c, u>>] = BRANCH]
            /\ inflight' = {[h EXCEPT !.stale = @ \/ h.user = u] : h \in inflight}
    /\ UNCHANGED <<user_settings, locales, resolved>>

receive_branch(u, c, t) ==
    /\ routed("text", c, u, "receive_branch")
    /\ LET branch == strip(t) IN
       IF branch = <<>>
       THEN /\ out' = response("text", u, c, t, "errors.empty_branch")
            /\ conversations' = [conversations EXCEPT ![<<c, u>>] = BRANCH]
            /\ UNCHANGED user_data
       ELSE IF u \in DOMAIN user_data
       THEN /\ user_data' = [user_data EXCEPT ![u] = dict_set(@, "branch", branch)]
            /\ out' = response("text", u, c, t, "ticket.describe_problem")
            /\ conversations' = [conversations EXCEPT ![<<c, u>>] = DESCRIPTION]
       ELSE /\ out' = response("text", u, c, t, "errors.general_error")
            /\ conversations' = [conversations EXCEPT ![<<c, u>>] = END]
            /\ UNCHANGED user_data
    /\ UNCHANGED <<groups, keyboards, inflight>>
    /\ UNCHANGED <<requests, user_settings, disk, locales, resolved>>

\* The callback returns None, which leaves the conversation in its state
no_branch_callback(u, c) ==
    /\ routed("no_branch", c, u, "no_branch_callback")
    /\ IF u \in DOMAIN user_data
       THEN /\ user_data' = [user_data EXCEPT ![u] = dict_set(@, "branch", NO_BRANCH_LABEL)]
            /\ out' = response("no_branch", u, c, <<>>, "ticket.describe_problem")
       ELSE /\ out' = response("no_branch", u, c, <<>>, "errors.general_error")
            /\ UNCHANGED user_data
    /\ UNCHANGED <<conversations, groups, keyboards, inflight>>
    /\ UNCHANGED <<requests, user_settings, disk, locales, resolved>>

\* The summary reads data['branch'] after the description is stored: when the
\* key is missing the KeyError leaves the handler, nothing is rendered and the
\* conversation keeps its state
receive_description(u, c, t) ==
    /\ routed("text", c, u, "receive_description")
    /\ LET description == strip(t) IN
       IF description = <<>>
       THEN /\ out' = response("text", u, c, t, "errors.empty_description")
            /\ conversations' = [conversations EXCEPT ![<<c, u>>] = DESCRIPTION]
            /\ UNCHANGED <<user_data, keyboards>>
       ELSE IF u \notin DOMAIN user_data
       THEN /\ out' = response("text", u, c, t, "errors.general_error")
            /\ conversations' = [conversations EXCEPT ![<<c, u>>] = END]
            /\ UNCHANGED <<user_data, keyboards>>
       ELSE /\ user_data' = [user_data EXCEPT ![u] = dict_set(@, "description", description)]
            /\ IF {"user_name", "group_name", "branch"} \subseteq DOMAIN user_data[u]
               THEN /\ out' = response("text", u, c, t, "ticket.confirm_details")
                    /\ keyboards' = [keyboards EXCEPT ![c] = @ \cup {"confirm_ticket", "cancel_ticket"}]
                    /\ conversations' = [conversations EXCEPT ![<<c, u>>] = END]
               ELSE /\ out' = response("text", u, c, t, "KeyError")
                    /\ UNCHANGED <<keyboards, conversations>>
    /\ UNCHANGED <<groups, inflight>>
    /\ UNCHANGED <<requests, user_settings, disk, locales, resolved>>

\* query.data = 'confirm_ticket', up to the await of the acknowledgment.
\* send_to_pyrus posts with the blocking requests library, so the read of the
\* draft and the dispatch are one step.
confirm_ticket_callback(u, c, resp) ==
    /\ routed("confirm_ticket", c, u, "confirm_ticket_callback")
    /\ IF u \in DOMAIN user_data
       THEN LET data == user_data[u]
                sent == send_to_pyrus(data, resp)
            IN /\ inflight' = inflight \cup
                     {[user |-> u, chat |-> c, data |-> data, success |-> sent.success,
                       posted |-> sent.posted, stale |-> FALSE]}
               /\ out' = [response("confirm_ticket", u, c, <<>>, "none")
                             EXCEPT !.calls = <<data>>, !.posted = sent.posted,
                                    !.success = sent.success]
               /\ requests' = [requests EXCEPT ![u] =
                                  IF @ + Len(sent.posted) > MaxRequests THEN MaxRequests
                                  ELSE @ + Len(sent.posted)]
       ELSE /\ out' = response("confirm_ticket", u, c, <<>>, "errors.general_error")
            /\ UNCHANGED <<inflight, requests>>
    /\ UNCHANGED <<user_data, conversations, groups, keyboards>>
    /\ UNCHANGED <<user_settings, disk, locales, resolved>>

\* The rest of the confirm branch: query.edit_message_text returns or raises,
\* then del self.user_data[user_id]; any exception lands in the except clause
confirm_ticket_resume(h, edit_ok) ==
    /\ h \in inflight
    /\ inflight' = inflight \ {h}
    /\ LET done(reply) == [response("confirm_ticket", h.user, h.chat, <<>>, reply)
                              EXCEPT !.calls = <<h.data>>, !.posted = h.posted,
                                     !.success = h.success]
       IN IF edit_ok /\ h.user \in DOMAIN user_data
          THEN /\ user_data' = dict_del(user_data, h.user)
               /\ requests' = [requests EXCEPT ![h.user] = 0]
               /\ out' = done(IF h.success THEN "ticket.created" ELSE "errors.pyrus_error")
          ELSE /\ out' = done("errors.general_error")
               /\ UNCHANGED <<user_data, requests>>
    /\ UNCHANGED <<conversations, groups, keyboards>>
    /\ UNCHANGED <<user_settings, disk, locales, resolved>>

\* query.data = 'cancel_ticket'
cancel_ticket_callback(u, c, edit_ok) ==
    /\ routed("cancel_ticket", c, u, "confirm_ticket_callback")
    /\ user_data' = IF u \in DOMAIN user_data THEN dict_del(user_data, u) ELSE user_data
    /\ out' = response("cancel_ticket", u, c, <<>>,
                       IF edit_ok THEN "ticket.cancelled" ELSE "errors.general_error")
    /\ requests' = [requests EXCEPT ![u] = 0]
    /\ UNCHANGED <<conversations, groups, keyboards, inflight>>
    /\ UNCHANGED <<user_settings, disk, locales, resolved>>

cancel(u, c) ==
    /\ routed("/cancel", c, u, "cancel")
    /\ user_data' = IF u \in DOMAIN user_data THEN dict_del(user_data, u) ELSE user_data
    /\ out' = response("/cancel", u, c, <<>>, "ticket.cancelled")
    /\ conversations' = [conversations EXCEPT ![<<c, u>>] = END]
    /\ requests' = [requests EXCEPT ![u] = 0]
    /\ UNCHANGED <<groups, keyboards, inflight>>
    /\ UNCHANGED <<user_settings, disk, locales, resolved>>

\* An update no registered handler accepts: nothing runs, nothing is rendered
unhandled(kind, u, c) ==
    /\ routed(kind, c, u, "none")
    /\ out' = response(kind, u, c, <<>>, "none")
    /\ UNCHANGED <<user_data, conversations, groups, keyboards, inflight>>
    /\ UNCHANGED <<requests, user_settings, disk, locales, resolved>>

---------------------------------------------------------------------------
(* The commands and buttons around the dialog, and a restart of the process *)

start(u, c) ==
    /\ routed("/start", c, u, "start")
    /\ IF chat_type(c) \in {"group", "supergroup"}
       THEN /\ groups' = add_group(groups, c)
            /\ disk' = [disk EXCEPT !.groups = groups']
            /\ keyboards' = [keyboards EXCEPT ![c] = @ \cup {"select_language"}]
            /\ out' = response("/start", u, c, <<>>, "ticket.group_saved")
       ELSE /\ out' = response("/start", u, c, <<>>, "errors.group_only")
            /\ UNCHANGED <<groups, disk, keyboards>>
    /\ UNCHANGED <<dialog_vars, user_settings, locale_vars>>

\* show_language_selection renders the two language buttons
language_command(u, c) ==
    /\ routed("/language", c, u, "language_command")
    /\ keyboards' = [keyboards EXCEPT ![c] = @ \cup {"lang_RU", "lang_UZ"}]
    /\ out' = response("/language", u, c, <<>>, "language.select")
    /\ UNCHANGED <<dialog_vars, groups, user_settings, disk, locale_vars>>

\* query.data.split('_')[1] of a language button
language_in(data) == IF data = "lang_RU" THEN "RU" ELSE "UZ"

language_callback(u, c, data) ==
    /\ routed(data, c, u, "language_callback")
    /\ IF data = "select_language"
       THEN /\ keyboards' = [keyboards EXCEPT ![c] = @ \cup {"lang_RU", "lang_UZ"}]
            /\ out' = response(data, u, c, <<>>, "language.select")
            /\ UNCHANGED <<user_settings, disk>>
       ELSE /\ user_settings' = set_user_language(user_settings, u, language_in(data))
            /\ disk' = [disk EXCEPT !.user_settings = user_settings']
            /\ out' = response(data, u, c, <<>>, "language.changed")
            /\ UNCHANGED keyboards
    /\ UNCHANGED <<dialog_vars, groups, locale_vars>>

help_command(u, c) ==
    /\ routed("/help", c, u, "help_command")
    /\ out' = response("/help", u, c, <<>>, "help.text")
    /\ UNCHANGED <<dialog_vars, groups, keyboards, user_settings, disk, locale_vars>>

\* The process is started again: drafts and dialog states are gone, the two
\* collections are loaded from their files
restart ==
    /\ can_fetch
    /\ user_data' = <<>>
    /\ conversations' = [k \in Chats \X Users |-> END]
    /\ inflight' = {}
    /\ requests' = [u \in Users |-> 0]
    /\ groups' = disk.groups
    /\ user_settings' = disk.user_settings
    /\ out' = response("restart", 0, 0, <<>>, "none")
    /\ UNCHANGED <<keyboards, disk, locale_vars>>

NextSettings ==
    \/ \E c \in Chats : \E u \in all_members(c) : start(u, c)
    \/ \E c \in Chats : \E u \in all_members(c) : language_command(u, c)
    \/ \E c \in Chats : \E u \in all_members(c) :
          \E data \in {"select_language", "lang_RU", "lang_UZ"} : language_callback(u, c, data)
    \/ \E c \in Chats : \E u \in all_members(c) : help_command(u, c)
    \/ restart

SpecSettings == Init /\ [][NextSettings]_vars

\* One call of LocalizationManager.get
localization_get(lang, keys, kwargs) ==
    /\ resolved' = [lang |-> lang, keys |-> keys, kwargs |-> kwargs,
                    result |-> get(locales, lang, keys, kwargs)]
    /\ UNCHANGED <<dialog_vars, groups, keyboards, out, user_settings, disk, locales>>

NextLocale ==
    \E lang \in Langs : \E keys \in KeyPaths : \E kwargs \in Kwargs :
        localization_get(lang, keys, kwargs)

SpecLocale == InitLocale /\ [][NextLocale]_vars

---------------------------------------------------------------------------
Next ==
    \/ \E c \in Chats : \E u \in members(c) : sos_command(u, c)
    \/ \E c \in Chats : \E u \in members(c), t \in Texts : receive_branch(u, c, t)
    \/ \E c \in Chats : \E u \in members(c) : no_branch_callback(u, c)
    \/ \E c \in Chats : \E u \in members(c), t \in Texts : receive_description(u, c, t)
    \/ \E c \in Chats : \E u \in members(c), resp \in Responses : confirm_ticket_callback(u, c, resp)
    \/ \E h \in inflight, edit_ok \in BOOLEAN : confirm_ticket_resume(h, edit_ok)
    \/ \E c \in Chats : \E u \in members(c), edit_ok \in BOOLEAN : cancel_ticket_callback(u, c, edit_ok)
    \/ \E c \in Chats : \E u \in members(c) : cancel(u, c)
    \/ \E kind \in Kinds, c \in Chats : \E u \in members(c) : unhandled(kind, u, c)

Spec == Init /\ [][Next]_vars

\* The replies two users of one group type: a blank one and two with text
Replies == {<<" ">>, <<"a">>, <<"a", "a">>}

\* The same dialog with every member of a chat sending
NextIsolation ==
    \/ \E c \in Chats : \E u \in all_members(c) : sos_command(u, c)
    \/ \E c \in Chats : \E u \in all_members(c), t \in Replies : receive_branch(u, c, t)
    \/ \E c \in Chats : \E u \in all_members(c) : no_branch_callback(u, c)
    \/ \E c \in Chats : \E u \in all_members(c), t \in Replies : receive_description(u, c, t)
    \/ \E c \in Chats : \E u \in all_members(c), resp \in Responses :
          confirm_ticket_callback(u, c, resp)
    \/ \E h \in inflight, edit_ok \in BOOLEAN : confirm_ticket_resume(h, edit_ok)
    \/ \E c \in Chats : \E u \in all_members(c), edit_ok \in BOOLEAN :
          cancel_ticket_callback(u, c, edit_ok)
    \/ \E c \in Chats : \E u \in all_members(c) : cancel(u, c)
    \/ \E kind \in Kinds, c \in Chats : \E u \in all_members(c) : unhandled(kind, u, c)

SpecIsolation == Init /\ [][NextIsolation]_vars

---------------------------------------------------------------------------
(* Vocabulary of the properties *)

spaces(n) == [i \in 1..n |-> " "]

\* r is t without its leading and trailing blanks, stated without strip()
is_trimmed_of(r, t) ==
    /\ \E i, j \in 0..Len(t) : t = spaces(i) \o r \o spaces(j)
    /\ r # <<>> => (r[1] # " " /\ r[Len(r)] # " ")

blank(t) == is_trimmed_of(<<>>, t)

has_draft(u) == u \in DOMAIN user_data

complete(d) == {"branch", "description"} \subseteq DOMAIN d

\* The update handled by the step is one of the given kind, sent by u in c
handled(kind, u, c) == out'.ev = kind /\ out'.user = u /\ out'.chat = c

\* A confirm decision has been handled to its end
confirm_done == out.ev = "confirm_ticket" /\ inflight = {} /\ out.reply # "none"

---------------------------------------------------------------------------
(* C1 *)

\* C1: after the full flow (ticket-start, branch, description, confirm) the
\* dispatcher has been get_called exactly once, with the group and submitter of
\* the ticket-start and the branch and description entered; when the backend
\* reports success the user sees ticket.created and has no draft afterwards.
C1_FullFlowDispatchedAndCleared ==
    (confirm_done /\ out.calls # <<>> /\ complete(out.calls[1])) =>
        LET d == out.calls[1] IN
        /\ Len(out.calls) = 1
        /\ d["user_name"] = full_name(out.user)
        /\ d["group_name"] \in {chat_title(c) : c \in GroupChats}
        /\ out.posted = << [text   |-> <<d["user_name"], d["group_name"]>>,
                            fields |-> <<d["group_name"], d["branch"], d["description"]>>] >>
        /\ out.success => (out.reply = "ticket.created" /\ ~has_draft(out.user))

(* C2 *)

\* C2: the dispatcher is invoked only on drafts whose branch and description
\* are populated, the description being non-empty.
C2_DispatchOnlyCompleteDrafts ==
    \A i \in DOMAIN out.calls :
        /\ complete(out.calls[i])
        /\ out.calls[i]["branch"] # <<>>
        /\ out.calls[i]["description"] # <<>>

(* C3 *)

\* C3: when a confirm found a draft and the dispatch failed, the user sees
\* errors.pyrus_error and has no draft afterwards.
C3_FailedDispatchClearsDraft ==
    (confirm_done /\ out.calls # <<>> /\ ~out.success) =>
        (out.reply = "errors.pyrus_error" /\ ~has_draft(out.user))

(* C4 *)

\* C4: a ticket-start sent in a group by a user who has a draft leaves the user
\* with the fresh draft of this start only, and the dialog in BRANCH.
C4_NewStartAlwaysWins ==
    [][\A c \in GroupChats : \A u \in members(c) :
          (handled("/SOS", u, c) /\ has_draft(u)) =>
              /\ u \in DOMAIN user_data'
              /\ user_data'[u] = [group_name |-> chat_title(c), group_id |-> c,
                                  user_name |-> full_name(u)]
              /\ conversations'[<<c, u>>] = BRANCH]_vars

(* C5 *)

\* C5: the "no branch" button pressed in BRANCH by a user who has a draft sets
\* the branch to the sentinel and moves the dialog to DESCRIPTION.
C5_NoBranchMovesToDescription ==
    [][\A c \in GroupChats : \A u \in members(c) :
          (handled("no_branch", u, c) /\ has_draft(u) /\ conversations[<<c, u>>] = BRANCH) =>
              /\ u \in DOMAIN user_data'
              /\ "branch" \in DOMAIN user_data'[u]
              /\ user_data'[u]["branch"] = NO_BRANCH_LABEL
              /\ conversations'[<<c, u>>] = DESCRIPTION]_vars

(* C6 *)

\* C6: a cancel command of a user who has a draft, sent in the group the draft
\* was started in, removes the draft and is answered with ticket.cancelled, at
\* whichever step the dialog is.
C6_CancelRemovesDraft ==
    [][\A c \in GroupChats : \A u \in members(c) :
          (handled("/cancel", u, c) /\ has_draft(u) /\ user_data[u]["group_id"] = c) =>
              (u \notin DOMAIN user_data' /\ out'.reply = "ticket.cancelled")]_vars

(* C7 *)

\* C7: a cancel command of a user who has no draft is answered with
\* ticket.cancelled and leaves the user without a draft.
C7_CancelWithoutDraftAcknowledged ==
    [][\A c \in Chats : \A u \in members(c) :
          (handled("/cancel", u, c) /\ ~has_draft(u)) =>
              (u \notin DOMAIN user_data' /\ out'.reply = "ticket.cancelled")]_vars

(* C8 *)

\* C8: while a confirm is suspended on its rendering, the draft of its user is
\* the very draft it read and dispatched: no other handler has replaced,
\* changed or removed it, so the confirm discards only the draft it read.
C8_SuspendedConfirmOwnsItsDraft ==
    \A h \in inflight :
        /\ has_draft(h.user)
        /\ user_data[h.user] = h.data
        /\ ~h.stale

\* A confirm is suspended and a ticket-start of the same user in the same
\* group would be taken by sos_command as soon as it is fetched
C8_Witness ==
    \E h \in inflight :
        /\ h.chat \in GroupChats
        /\ handler_for("/SOS", h.chat, h.user) = "sos_command"
        /\ has_draft(h.user)

(* C9 *)

\* C9: a branch reply B that is non-empty after trimming, sent in BRANCH by a
\* user who has a draft, moves the dialog to DESCRIPTION and stores the
\* trimmed B as branch, leaving every other field of the draft as it was.
C9_BranchStoredTrimmed ==
    [][\A c \in GroupChats : \A u \in members(c) :
          (/\ handled("text", u, c)
           /\ conversations[<<c, u>>] = BRANCH
           /\ has_draft(u)
           /\ ~blank(out'.arg)) =>
              /\ conversations'[<<c, u>>] = DESCRIPTION
              /\ u \in DOMAIN user_data'
              /\ DOMAIN user_data'[u] = DOMAIN user_data[u] \cup {"branch"}
              /\ is_trimmed_of(user_data'[u]["branch"], out'.arg)
              /\ \A k \in DOMAIN user_data[u] \ {"branch"} :
                     user_data'[u][k] = user_data[u][k]]_vars

\* A reply with blanks around it has been stored without them
C9_Witness ==
    /\ out.ev = "text"
    /\ out.reply = "ticket.describe_problem"
    /\ conversations[<<out.chat, out.user>>] = DESCRIPTION
    /\ has_draft(out.user)
    /\ user_data[out.user]["branch"] # out.arg
    /\ is_trimmed_of(user_data[out.user]["branch"], out.arg)

(* C10 *)

\* C10: a branch reply that is empty after trimming keeps the dialog in BRANCH,
\* is answered with errors.empty_branch and leaves every draft as it was.
C10_BlankBranchRejected ==
    [][\A c \in GroupChats : \A u \in members(c) :
          (/\ handled("text", u, c)
           /\ conversations[<<c, u>>] = BRANCH
           /\ blank(out'.arg)) =>
              /\ conversations'[<<c, u>>] = BRANCH
              /\ out'.reply = "errors.empty_branch"
              /\ user_data' = user_data]_vars

\* A blank reply was rejected while the user had a draft that holds a branch
C10_Witness ==
    /\ out.ev = "text"
    /\ blank(out.arg)
    /\ out.reply = "errors.empty_branch"
    /\ conversations[<<out.chat, out.user>>] = BRANCH
    /\ has_draft(out.user)
    /\ "branch" \in DOMAIN user_data[out.user]

(* C11 *)

\* C11: a description reply that is empty after trimming keeps the dialog in
\* DESCRIPTION, is answered with errors.empty_description, leaves every draft
\* as it was and renders no confirmation summary.
C11_BlankDescriptionRejected ==
    [][\A c \in GroupChats : \A u \in members(c) :
          (/\ handled("text", u, c)
           /\ conversations[<<c, u>>] = DESCRIPTION
           /\ blank(out'.arg)) =>
              /\ conversations'[<<c, u>>] = DESCRIPTION
              /\ out'.reply = "errors.empty_description"
              /\ user_data' = user_data
              /\ keyboards' = keyboards]_vars

\* A blank description was rejected and the draft still has no description
C11_Witness ==
    /\ out.ev = "text"
    /\ blank(out.arg)
    /\ out.reply = "errors.empty_description"
    /\ conversations[<<out.chat, out.user>>] = DESCRIPTION
    /\ has_draft(out.user)
    /\ "branch" \in DOMAIN user_data[out.user]
    /\ "description" \notin DOMAIN user_data[out.user]

(* C13 *)

\* C13: a call of the dispatcher ends with a definite result and at most one
\* outbound request: the result is success exactly when a request went out
\* and the backend answered with the success status.
C13_DispatchDefiniteSingleRequest ==
    [][\A c \in GroupChats : \A u \in members(c) : \A resp \in Responses :
          (has_draft(u) /\ confirm_ticket_callback(u, c, resp)) =>
              /\ out'.calls = <<user_data[u]>>
              /\ out'.success \in BOOLEAN
              /\ Len(out'.posted) <= 1
              /\ Len(out'.posted) = IF complete(user_data[u]) THEN 1 ELSE 0
              /\ out'.success = (complete(user_data[u]) /\ resp = "200")]_vars

\* The dispatcher has reported failure after its one request
C13_Witness ==
    /\ out.ev = "confirm_ticket"
    /\ out.calls # <<>>
    /\ Len(out.posted) = 1
    /\ ~out.success

(* C16 *)

\* C16: in BRANCH, when the user has no draft, a branch reply that is not
\* blank and the "no branch" button are both answered with
\* errors.general_error and end the dialog, and no draft is created.
C16_BranchStepWithoutDraftAborts ==
    [][\A c \in GroupChats : \A u \in members(c) :
          (/\ \/ handled("text", u, c) /\ ~blank(out'.arg)
              \/ handled("no_branch", u, c)
           /\ conversations[<<c, u>>] = BRANCH
           /\ ~has_draft(u)) =>
              /\ out'.reply = "errors.general_error"
              /\ conversations'[<<c, u>>] = END
              /\ u \notin DOMAIN user_data']_vars

(* C17 *)

\* C17: once a confirm decision has been handled to its end, whatever
\* happened during the step, the user has no draft.
C17_NoDraftAfterConfirm ==
    confirm_done => ~has_draft(out.user)

(* C20 *)

\* C20: whenever a dialog is in DESCRIPTION and its user has a draft, the
\* draft holds a branch.
C20_DescriptionStepHasBranch ==
    \A c \in GroupChats : \A u \in members(c) :
        (conversations[<<c, u>>] = DESCRIPTION /\ has_draft(u)) =>
            "branch" \in DOMAIN user_data[u]

(* C12 *)

\* C12: a ticket-start sent outside a group is answered with
\* errors.group_only, ends the dialog without entering BRANCH, creates no
\* draft, records no group and leaves the drafts and the settings as they were.
C12_StartOutsideGroupRejected ==
    [][\A c \in PrivateChats : \A u \in members(c) :
          handled("/SOS", u, c) =>
              /\ out'.reply = "errors.group_only"
              /\ conversations'[<<c, u>>] = END
              /\ user_data' = user_data
              /\ groups' = groups
              /\ user_settings' = user_settings
              /\ disk' = disk]_vars

\* A ticket-start in the private chat was rejected while the user had a draft
\* from a group, which is still there
C12_Witness ==
    /\ out.ev = "/SOS"
    /\ out.chat \in PrivateChats
    /\ out.reply = "errors.group_only"
    /\ has_draft(out.user)
    /\ groups # <<>>

(* C19 *)

\* C19: the ticketing backend receives at most one request for each draft a
\* ticket-start created.
C19_AtMostOneRequestPerDraft ==
    \A u \in Users : requests[u] <= 1

(* C14 *)

\* C14: a user who never selected a language has RU; a selection by a user
\* makes that user's language the selected one, and nothing else (another
\* user's selection, any other update, a restart) changes it.
C14_LanguageRoundTrip ==
    /\ \A u \in Users : get_user_language(u) = "RU"
    /\ [][\A u \in Users :
             LET chosen == {l \in {"RU", "UZ"} :
                              out'.user = u /\ out'.ev = IF l = "RU" THEN "lang_RU" ELSE "lang_UZ"}
             IN  IF chosen # {}
                 THEN language_of(user_settings', u) \in chosen
                 ELSE language_of(user_settings', u) = language_of(user_settings, u)]_vars

\* Another user has just selected RU while the first user's UZ stands
C14_Witness ==
    /\ out.ev = "lang_RU"
    /\ out.user = 43
    /\ get_user_language(43) = "RU"
    /\ get_user_language(42) = "UZ"

(* C15, C18 *)

\* the bundle the call is to use: the language's own, RU when none is loaded
bundle_for(lang) == IF lang \in {"RU", "UZ"} THEN locales[lang] ELSE locales["RU"]

\* a bundle's value under a key path of at most two keys, json_num when a
\* segment is missing
value_at(bundle, keys) ==
    IF keys = <<>> THEN json_dict(bundle)
    ELSE IF keys[1] \notin DOMAIN bundle THEN json_num
    ELSE IF Len(keys) = 1 THEN bundle[keys[1]]
    ELSE IF keys[2] \notin DOMAIN bundle[keys[1]].items THEN json_num
    ELSE bundle[keys[1]].items[keys[2]]

text_at(bundle, keys) == value_at(bundle, keys).type = "str"

dotted(keys) ==
    IF Len(keys) = 0 THEN <<>>
    ELSE IF Len(keys) = 1 THEN <<lit(keys[1])>>
    ELSE <<lit(keys[1]), lit("."), lit(keys[2])>>

placeholder(keys) == json_str(<<lit("[Missing translation: ")>> \o dotted(keys) \o <<lit("]")>>)

substituted(text, kwargs) ==
    [i \in 1..Len(text) |->
        IF text[i].kind = "field" /\ text[i].s \in DOMAIN kwargs
        THEN lit(kwargs[text[i].s]) ELSE text[i]]

get_called == resolved.result.kind # "none"

\* C15: a call always returns; it returns the placeholder with the dotted key
\* path when a segment is missing or the final value is not a string, and
\* otherwise a string, which without params is the bundle's text for the key.
C15_ResolveTotal ==
    get_called =>
        LET here == value_at(bundle_for(resolved.lang), resolved.keys)
        IN  /\ resolved.result.kind = "return"
            /\ IF here.type # "str"
               THEN resolved.result.value = placeholder(resolved.keys)
               ELSE /\ resolved.result.value.type = "str"
                    /\ resolved.kwargs = <<>> => resolved.result.value = here

\* C18: with params and a template found, the call returns the template with
\* the fields named in params replaced and every other field left as it is.
C18_AbsentFieldsLeftVerbatim ==
    (get_called /\ resolved.kwargs # <<>>
            /\ text_at(bundle_for(resolved.lang), resolved.keys)) =>
        /\ resolved.result.kind = "return"
        /\ resolved.result.value =
             json_str(substituted(value_at(bundle_for(resolved.lang), resolved.keys).text,
                                  resolved.kwargs))

(* C21 *)

\* what a dispatch of draft d carries
carried(d) ==
    [text |-> <<d["user_name"], d["group_name"]>>,
     fields |-> <<d["group_name"], d["branch"], d["description"]>>]

\* C21: a step taken for an update of user a leaves the draft of every other
\* user b as it was (not created, not changed, not removed), and whatever
\* the step dispatched was built from a's own draft.
C21_DialogsIsolated ==
    [][\A a \in Users :
          out'.user = a =>
              /\ \A b \in Users \ {a} :
                    /\ has_draft(b) <=> b \in DOMAIN user_data'
                    /\ has_draft(b) => user_data'[b] = user_data[b]
              /\ out'.posted # <<>> =>
                    /\ has_draft(a)
                    /\ complete(user_data[a])
                    /\ out'.posted = <<carried(user_data[a])>>]_vars

\* One user's ticket went out and their draft is gone, while the other
\* user's complete and different draft in the same group still stands
C21_Witness ==
    /\ out.ev = "confirm_ticket"
    /\ out.user = 42
    /\ out.chat = 555
    /\ out.reply = "ticket.created"
    /\ ~has_draft(42)
    /\ has_draft(43)
    /\ complete(user_data[43])
    /\ user_data[43]["group_id"] = 555
    /\ out.posted # <<carried(user_data[43])>>
    /\ out.posted[1].fields[2] # user_data[43]["branch"]

====
